---- MODULE Spec2Model ----
(***************************************************************************)
(* Order lifecycle of the varaha-swami food ordering application.          *)
(*                                                                         *)
(* The state is the content of the `profiles` and `orders` tables, the     *)
(* order lists held by each dashboard (React state), the order updates     *)
(* that a dashboard has sent and the database has not applied yet, and the *)
(* response last handed back to a client.  Order placement, the menu and   *)
(* the ratings add the `menu_items`, `order_items` and `order_ratings`     *)
(* tables, the columns of `orders` that are written once at creation, and  *)
(* the state of the customer's and the owner's browser session.            *)
(*                                                                         *)
(* Row level security is modelled as PostgreSQL applies it: an UPDATE with *)
(* a WHERE clause touches only rows that pass the SELECT policy and the    *)
(* UPDATE policy (a row that does not pass is skipped without an error),   *)
(* and the new row must pass both again (otherwise the statement fails).   *)
(* supabase-js reports `error = null` for an UPDATE that touched no row.   *)
(***************************************************************************)
EXTENDS Integers, Sequences, FiniteSets, Bags, TLC

\* ------------------------------------------------------------------ ids
Customers  == {"c1", "c2"}
OwnerIds   == {"owner"}
CourierIds == {"d1", "d2"}
Profiles   == Customers \cup OwnerIds \cup CourierIds
OrderIds   == {1}

\* at most this many order updates are sent and not yet applied
MaxInFlight == 2

\* at most this many of one menu item in a cart
MaxQuantity == 2
\* at most this many orders of a customer after those of OrderIds
MaxLaterOrders == 10

NULL    == "null"
\* no row with this id
NoOrder == [customer_id |-> NULL, delivery_boy_id |-> NULL,
            status |-> "none", order_type |-> "none"]
NoView  == "not_listed"
\* no response yet
NoResp  == [actor |-> NULL, order |-> 0, error |-> FALSE]

MenuIds == {1, 2, 3}

\* null in a numeric column or a `number | null` field
NullInt == -1
\* no row with this id in menu_items
NoItem == [price |-> 0, preparation_time_minutes |-> NullInt,
           is_available |-> FALSE, is_deleted |-> FALSE, present |-> FALSE]
\* the creation-time columns of an order that does not exist
NoDetails == [total_price |-> 0, estimated_prep_time |-> NullInt,
              estimated_delivery_time |-> NullInt,
              house_no |-> <<>>, customer_phone |-> <<>>]
\* the owner is not deleting a menu item
NoDeleting == [item |-> 0, toast |-> "none"]
\* no rating has been submitted yet
NoRatingResp == [actor |-> NULL, order |-> 0, error |-> "none"]

\* ------------------------------------------------------------ enums
OrderStatus == {"pending", "confirmed", "preparing", "ready",
                "picked_up", "delivered", "cancelled"}
OrderType   == {"delivery", "pickup"}
UserRole    == {"customer", "owner", "delivery"}

NoMenuResp == [actor |-> NULL, op |-> "none", error |-> "none", rows |-> 0]

\* identities that register through the sign-up form
Registrants == {"u1", "u2"}
\* Auth and AuthProvider before the sign-up form is submitted
NoAuth == [pc |-> "form", session |-> FALSE, existingProfile |-> NULL,
           toast |-> "none", provider |-> "idle"]

VARIABLES
  couriers,   \* registered delivery profiles, oldest created_at first
  is_online,  \* profiles.is_online of each delivery profile
  orders,     \* orders table: id -> row, or NoOrder
  view,       \* order list of each client: status shown for the order
  inflight,   \* bag of order updates sent by a dashboard, not yet applied
  resp,       \* the response last returned to a client
  menu_items,    \* menu_items table: id -> row, or NoItem
  order_items,   \* order_items table: set of rows
  order_details, \* orders table, columns written by the INSERT only
  client,        \* CustomerView state of the customer's browser session
  deleting,      \* OwnerView.handleDeleteItem: item at confirm(), last toast
  order_ratings, \* order_ratings table: set of rows
  rating_resp,   \* the result of the last statement on order_ratings
  profiles,      \* profiles table: rows of the identities that sign up
  auth,          \* Auth.handleAuth and AuthProvider of each new identity
  restaurant_online, \* profiles.is_online of the owner profile
  menu_resp,     \* the result of the last statement on menu_items
  later_orders   \* orders of each customer newer than those of OrderIds

\* the tables and sessions around order placement, the menu and ratings
shopVars == <<menu_items, order_items, order_details, client, deleting,
              order_ratings, rating_resp>>

\* sign-up, the profile rows it creates, and the restaurant's switch
\* the restaurant's switch, the answers to statements on the menu, and the
\* orders of which only the number is kept
dashVars == <<restaurant_online, menu_resp, later_orders>>

sessionVars == <<profiles, auth, dashVars>>

vars == <<couriers, is_online, orders, view, inflight, resp, shopVars,
          sessionVars>>

Range(s) == {s[i] : i \in 1..Len(s)}

\* profiles.user_type
user_type(uid) ==
  IF uid \in OwnerIds THEN "owner"
  ELSE IF uid \in CourierIds THEN "delivery"
  ELSE "customer"

\* the profile row of uid exists
HasProfile(uid) ==
  uid \in Customers \cup OwnerIds \cup Range(couriers)

OrderRow == [customer_id : Customers,
             delivery_boy_id : CourierIds \cup {NULL},
             status : OrderStatus,
             order_type : OrderType]

Request == [actor : Profiles, order : OrderIds, status : OrderStatus,
            setDb : BOOLEAN, delivery_boy_id : CourierIds \cup {NULL}]

TypeOK ==
  /\ couriers \in Seq(CourierIds)
  /\ is_online \in [CourierIds -> BOOLEAN]
  /\ orders \in [OrderIds -> OrderRow \cup {NoOrder}]
  /\ view \in [Profiles -> [OrderIds -> OrderStatus \cup {NoView}]]
  /\ IsABag(inflight) /\ BagToSet(inflight) \subseteq Request
  /\ resp \in {NoResp} \cup [actor : Profiles, order : OrderIds, error : BOOLEAN]

\* ------------------------------------------------ row level security
\* a SELECT policy that lets delivery profiles read like owners
OrdersSelectPolicy_Staff(uid, row) ==
  \/ uid = row.customer_id
  \/ uid = row.delivery_boy_id
  \/ (HasProfile(uid) /\ user_type(uid) \in {"owner", "delivery"})

\* a SELECT policy USING (true), as on profiles and menu_items
OrdersSelectPolicy_Public(uid, row) ==
  TRUE

\* policy "Customers can view their own orders" ON orders FOR SELECT
OrdersSelectPolicy(uid, row) ==
  \/ uid = row.customer_id
  \/ uid = row.delivery_boy_id
  \/ (HasProfile(uid) /\ user_type(uid) = "owner")

\* policy "Owners and delivery boys can update orders" ON orders FOR UPDATE
OrdersUpdatePolicy(uid, row) ==
  \/ (HasProfile(uid) /\ user_type(uid) \in {"owner", "delivery"})
  \/ uid = row.customer_id

\* the rows of `orders` an UPDATE ... WHERE id = o issued by uid touches
RowTouched(uid, ords, o) ==
  /\ ords[o] # NoOrder
  /\ OrdersSelectPolicy(uid, ords[o])
  /\ OrdersUpdatePolicy(uid, ords[o])

\* the new row is accepted (the policies are the WITH CHECK of the update)
RowAccepted(uid, row) ==
  /\ OrdersSelectPolicy(uid, row)
  /\ OrdersUpdatePolicy(uid, row)

\* --------------------------------------------------- auto-assignment
\* SELECT id FROM profiles WHERE user_type = 'delivery'
\*   ORDER BY is_online DESC, created_at ASC LIMIT 1
FirstDeliveryPerson ==
  LET on == SelectSeq(couriers, LAMBDA d : is_online[d])
  IN IF on # <<>> THEN Head(on)
     ELSE IF couriers # <<>> THEN Head(couriers)
     ELSE NULL

\* auto_assign_delivery_person(order_id_param), run with the rights of uid;
\* the result is the orders table after the call
auto_assign_delivery_person(uid, ords, o) ==
  IF /\ ords[o] # NoOrder
     /\ OrdersSelectPolicy(uid, ords[o])
     /\ ords[o].order_type = "delivery"
     /\ FirstDeliveryPerson # NULL
     /\ RowTouched(uid, ords, o)
     /\ RowAccepted(uid, [ords[o] EXCEPT !.delivery_boy_id = FirstDeliveryPerson])
  THEN [ords EXCEPT ![o].delivery_boy_id = FirstDeliveryPerson]
  ELSE ords

\* trigger_auto_assign_delivery, AFTER UPDATE ON orders FOR EACH ROW
trigger_auto_assign_delivery(uid, ords, o, old) ==
  IF /\ ords[o].status = "ready"
     /\ old.status # "ready"
     /\ ords[o].order_type = "delivery"
     /\ ords[o].delivery_boy_id = NULL
  THEN auto_assign_delivery_person(uid, ords, o)
  ELSE ords

\* the row after  UPDATE orders SET status = .., [delivery_boy_id = ..]
Patched(row, req) ==
  [row EXCEPT !.status = req.status,
              !.delivery_boy_id = IF req.setDb THEN req.delivery_boy_id ELSE @]

\* supabase.from('orders').update(updateData).eq('id', orderId) as uid:
\* the table afterwards and the error handed back to the client
UpdateOrder(uid, req) ==
  LET o == req.order IN
  IF ~RowTouched(uid, orders, o)
  THEN [orders |-> orders, error |-> FALSE]
  ELSE IF ~RowAccepted(uid, Patched(orders[o], req))
  THEN [orders |-> orders, error |-> TRUE]
  ELSE [orders |-> trigger_auto_assign_delivery(uid,
                     [orders EXCEPT ![o] = Patched(orders[o], req)], o, orders[o]),
        error |-> FALSE]

\* ------------------------------------------------------------- Init
\* the menu the owner has entered (preparation_time_minutes DEFAULT 15,
\* is_available DEFAULT TRUE, is_deleted DEFAULT FALSE)
InitialMenu ==
  [m \in MenuIds |->
     [price |-> 40 * m, preparation_time_minutes |-> 15,
      is_available |-> TRUE, is_deleted |-> FALSE, present |-> TRUE]]

\* useState initial values of CustomerView, before the location is known
IdleClient ==
  [user |-> "c1", cart |-> <<>>, houseNo |-> <<>>, phone |-> <<>>,
   customerLocation |-> FALSE, distance |-> NullInt,
   pc |-> "idle", orderData |-> 0, toast |-> "none", view |-> "menu"]

\* no order line, no rating, nobody ordering or deleting
InitShop ==
  /\ menu_items = InitialMenu
  /\ order_items = {}
  /\ order_details = [o \in OrderIds |-> NoDetails]
  /\ client = IdleClient
  /\ deleting = NoDeleting
  /\ order_ratings = {}
  /\ rating_resp = NoRatingResp

\* nobody has signed up; is_online DEFAULT true
InitSession ==
  /\ profiles = {}
  /\ auth = [u \in Registrants |-> NoAuth]
  /\ restaurant_online = TRUE
  /\ menu_resp = NoMenuResp
  /\ later_orders = [c \in Customers |-> 0]

Init ==
  /\ couriers = <<>>
  /\ is_online = [d \in CourierIds |-> TRUE]
  /\ orders = [o \in OrderIds |-> NoOrder]
  /\ view = [a \in Profiles |-> [o \in OrderIds |-> NoView]]
  /\ inflight = EmptyBag
  /\ resp = NoResp
  /\ InitSession
  /\ InitShop

\* ---------------------------------------------------------- profiles
\* handle_new_user: a delivery account signs up, its profile row is created
\* (is_online DEFAULT TRUE, created_at = now())
handle_new_user(d) ==
  /\ d \in CourierIds \ Range(couriers)
  /\ couriers' = Append(couriers, d)
  /\ UNCHANGED <<is_online, orders, view, inflight, resp>>
  /\ UNCHANGED shopVars
  /\ UNCHANGED sessionVars

\* DeliveryView.toggleOnlineStatus / updateOnlineStatus
toggleOnlineStatus(d) ==
  /\ d \in Range(couriers)
  /\ is_online' = [is_online EXCEPT ![d] = ~@]
  /\ UNCHANGED <<couriers, orders, view, inflight, resp>>
  /\ UNCHANGED shopVars
  /\ UNCHANGED sessionVars

\* ------------------------------------------------------------ orders
\* CustomerView.placeOrder: INSERT INTO orders (status DEFAULT 'pending',
\* delivery_boy_id NULL); ids come from the BIGSERIAL sequence
placeOrder(c, o, orderType) ==
  /\ orders[o] = NoOrder
  /\ \A p \in OrderIds : p < o => orders[p] # NoOrder
  /\ orders' = [orders EXCEPT ![o] =
                  [customer_id |-> c, delivery_boy_id |-> NULL,
                   status |-> "pending", order_type |-> orderType]]
  /\ UNCHANGED <<couriers, is_online, view, inflight, resp>>
  /\ UNCHANGED shopVars
  /\ UNCHANGED sessionVars

\* ----------------------------------------------------------- fetches
\* CustomerView.fetchOrders: .limit(10)
FetchLimit == 10

\* .order('created_at', { ascending: false }).limit(10): fewer than ten
\* orders of c are newer than order o
InLastOrders(c, o) ==
  Cardinality({p \in OrderIds : /\ p > o
                                /\ orders[p] # NoOrder
                                /\ OrdersSelectPolicy(c, orders[p])
                                /\ orders[p].customer_id = c})
     + later_orders[c] < FetchLimit

\* CustomerView.fetchOrders: .eq('customer_id', user.id)
CustomerFetchOrders(c) ==
  /\ view' = [view EXCEPT ![c] = [o \in OrderIds |->
                IF /\ orders[o] # NoOrder
                   /\ OrdersSelectPolicy(c, orders[o])
                   /\ orders[o].customer_id = c
                   /\ InLastOrders(c, o)
                THEN orders[o].status ELSE NoView]]
  /\ UNCHANGED <<couriers, is_online, orders, inflight, resp>>
  /\ UNCHANGED shopVars
  /\ UNCHANGED sessionVars

\* OwnerView.fetchOrders: every row the owner may read
OwnerFetchOrders(w) ==
  /\ view' = [view EXCEPT ![w] = [o \in OrderIds |->
                IF orders[o] # NoOrder /\ OrdersSelectPolicy(w, orders[o])
                THEN orders[o].status ELSE NoView]]
  /\ UNCHANGED <<couriers, is_online, orders, inflight, resp>>
  /\ UNCHANGED shopVars
  /\ UNCHANGED sessionVars

\* DeliveryView.fetchOrders: availableOrders (ready delivery orders) and
\* myOrders (picked_up / delivered orders of this courier)
DeliveryFetchOrders(d) ==
  /\ d \in Range(couriers)
  /\ view' = [view EXCEPT ![d] = [o \in OrderIds |->
                IF orders[o] = NoOrder \/ ~OrdersSelectPolicy(d, orders[o])
                THEN NoView
                ELSE IF orders[o].status = "ready" /\ orders[o].order_type = "delivery"
                THEN "ready"
                ELSE IF /\ orders[o].delivery_boy_id = d
                        /\ orders[o].status \in {"picked_up", "delivered"}
                THEN orders[o].status
                ELSE NoView]]
  /\ UNCHANGED <<couriers, is_online, orders, inflight, resp>>
  /\ UNCHANGED shopVars
  /\ UNCHANGED sessionVars

\* ------------------------------------------------- owner dashboard
\* OwnerView.OrderCard.getAction: the status the card's button requests
getAction(st) ==
  CASE st = "pending"   -> "confirmed"
    [] st = "confirmed" -> "preparing"
    [] st = "preparing" -> "ready"
    [] st = "ready"     -> "picked_up"
    [] OTHER            -> NULL

\* OwnerView.updateOrderStatus up to the point where the update is sent.
\* For a delivery order marked ready the dashboard first runs
\*   SELECT id FROM profiles WHERE user_type = 'delivery' LIMIT 1
\* which has no ORDER BY: any delivery profile may come back; `pick` = NULL
\* is the query failing or finding no row.
updateOrderStatus(w, o, pick) ==
  /\ BagCardinality(inflight) < MaxInFlight
  /\ view[w][o] # NoView
  /\ getAction(view[w][o]) # NULL
  /\ orders[o] # NoOrder
  /\ pick \in Range(couriers) \cup {NULL}
  /\ couriers = <<>> => pick = NULL
  /\ LET newStatus == getAction(view[w][o])
         assign == /\ newStatus = "ready"
                   /\ orders[o].order_type = "delivery"
                   /\ pick # NULL
     IN inflight' = inflight (+) SetToBag(
          {[actor |-> w, order |-> o, status |-> newStatus,
            setDb |-> assign,
            delivery_boy_id |-> IF assign THEN pick ELSE NULL]})
  /\ UNCHANGED <<couriers, is_online, orders, view, resp>>
  /\ UNCHANGED shopVars
  /\ UNCHANGED sessionVars

\* ----------------------------------------------- delivery dashboard
\* DeliveryView.handleOrderAction up to the point where the update is sent:
\* "Accept Delivery" on an available order, "Mark as Delivered" on one of
\* the courier's orders in progress
handleOrderAction(d, o) ==
  /\ BagCardinality(inflight) < MaxInFlight
  /\ d \in Range(couriers)
  /\ view[d][o] \in {"ready", "picked_up"}
  /\ inflight' = inflight (+) SetToBag(
       {IF view[d][o] = "ready"
        THEN [actor |-> d, order |-> o, status |-> "picked_up",
              setDb |-> TRUE, delivery_boy_id |-> d]
        ELSE [actor |-> d, order |-> o, status |-> "delivered",
              setDb |-> FALSE, delivery_boy_id |-> NULL]})
  /\ UNCHANGED <<couriers, is_online, orders, view, resp>>
  /\ UNCHANGED shopVars
  /\ UNCHANGED sessionVars

\* the order list of the requesting dashboard after a successful update
LocalUpdate(req) ==
  LET a == req.actor
      o == req.order
  IN IF user_type(a) = "owner"
     THEN \* setOrders(prev.map(o => o.id === orderId ? {...o, status} : o))
          IF view[a][o] # NoView THEN [view EXCEPT ![a][o] = req.status]
          ELSE view
     ELSE IF req.status = "picked_up"
     THEN \* removed from availableOrders, prepended to myOrders
          [view EXCEPT ![a][o] = "picked_up"]
     ELSE \* removed from availableOrders, myOrders untouched
          IF view[a][o] = "ready" THEN [view EXCEPT ![a][o] = NoView]
          ELSE view

\* the database applies an update a dashboard has sent and the handler
\* (updateOrderStatus / handleOrderAction) runs to its end
ApplyUpdate(req) ==
  /\ BagIn(req, inflight)
  /\ LET r == UpdateOrder(req.actor, req)
     IN /\ orders' = r.orders
        /\ resp' = [actor |-> req.actor, order |-> req.order, error |-> r.error]
        /\ view' = IF r.error THEN view ELSE LocalUpdate(req)
  /\ inflight' = inflight (-) SetToBag({req})
  /\ UNCHANGED <<couriers, is_online>>
  /\ UNCHANGED shopVars
  /\ UNCHANGED sessionVars

\* the update does not reach the database (network / store unavailable):
\* the handler takes its `if (error)` branch
UpdateFails(req) ==
  /\ BagIn(req, inflight)
  /\ resp' = [actor |-> req.actor, order |-> req.order, error |-> TRUE]
  /\ inflight' = inflight (-) SetToBag({req})
  /\ UNCHANGED <<couriers, is_online, orders, view>>
  /\ UNCHANGED shopVars
  /\ UNCHANGED sessionVars

\* ------------------------------------------------- direct API calls
\* any signed-in profile sends  UPDATE orders SET ... WHERE id = o  through
\* the REST API; only the policies above stand in its way
DirectUpdate(a, o, st, setDb, db) ==
  /\ HasProfile(a)
  /\ db \in Range(couriers) \cup {NULL}
  /\ ~setDb => db = NULL
  /\ LET req == [actor |-> a, order |-> o, status |-> st,
                 setDb |-> setDb, delivery_boy_id |-> db]
         r == UpdateOrder(a, req)
     IN /\ orders' = r.orders
        /\ resp' = [actor |-> a, order |-> o, error |-> r.error]
  /\ UNCHANGED <<couriers, is_online, view, inflight>>
  /\ UNCHANGED shopVars
  /\ UNCHANGED sessionVars

\* "Customers can create orders": WITH CHECK (auth.uid() = customer_id)
OrdersInsertPolicy(uid, row) ==
  uid = row.customer_id

\* any signed-in profile sends  INSERT INTO orders  through the REST API
\* with the columns it likes; delivery_boy_id REFERENCES profiles(id).
\* (Orders whose customer_id is an owner or a delivery profile are left
\* out: customer_id ranges over Customers.)
DirectInsert(a, o, row) ==
  /\ HasProfile(a)
  /\ orders[o] = NoOrder
  /\ \A p \in OrderIds : p < o => orders[p] # NoOrder
  /\ row.delivery_boy_id \in Range(couriers) \cup {NULL}
  /\ IF OrdersInsertPolicy(a, row)
     THEN /\ orders' = [orders EXCEPT ![o] = row]
          /\ resp' = [actor |-> a, order |-> o, error |-> FALSE]
     ELSE /\ orders' = orders
          /\ resp' = [actor |-> a, order |-> o, error |-> TRUE]
  /\ UNCHANGED <<couriers, is_online, view, inflight>>
  /\ UNCHANGED shopVars
  /\ UNCHANGED sessionVars

\* any signed-in profile calls rpc auto_assign_delivery_person(o)
\* (GRANT EXECUTE ... TO authenticated)
RpcAutoAssign(a, o) ==
  /\ HasProfile(a)
  /\ orders' = auto_assign_delivery_person(a, orders, o)
  /\ resp' = [actor |-> a, order |-> o, error |-> FALSE]
  /\ UNCHANGED <<couriers, is_online, view, inflight>>
  /\ UNCHANGED shopVars
  /\ UNCHANGED sessionVars

\* -------------------------------------------------- order placement
\* a line of the cart: the MenuItem as it was fetched, and a quantity
CartItem(m, prep, q) ==
  [id |-> m, price |-> InitialMenu[m].price,
   preparation_time_minutes |-> prep, quantity |-> q]

Whitespace == {" "}

RECURSIVE trimStart(_)
trimStart(s) ==
  IF s # <<>> /\ Head(s) \in Whitespace THEN trimStart(Tail(s)) ELSE s

RECURSIVE trimEnd(_)
trimEnd(s) ==
  IF s # <<>> /\ s[Len(s)] \in Whitespace
  THEN trimEnd(SubSeq(s, 1, Len(s) - 1)) ELSE s

\* the address check that compares the fields as they were typed
trim_Identity(s) ==
  s

\* String.prototype.trim on a string held as its sequence of characters
trim(s) ==
  trimEnd(trimStart(s))

\* JavaScript  x || dflt  on a `number | null`: null and 0 are falsy
OrElse(x, dflt) ==
  IF x = NullInt \/ x = 0 THEN dflt ELSE x

\* Math.max
Max(a, b) ==
  IF a >= b THEN a ELSE b

\* the fallbacks written into placeOrder
DefaultPrepTime == 15
FallbackDeliveryTime == 15

RECURSIVE reducePrep(_, _)
reducePrep(cart, max) ==
  IF cart = <<>> THEN max
  ELSE reducePrep(Tail(cart),
         Max(max, OrElse(Head(cart).preparation_time_minutes, DefaultPrepTime)))

\* a reduce that keeps the last item's time instead of the maximum
totalPrepTime_Last(cart) ==
  IF cart = <<>> THEN 0
  ELSE OrElse(cart[Len(cart)].preparation_time_minutes, DefaultPrepTime)

\* cart.reduce((max, item) =>
\*   Math.max(max, item.preparation_time_minutes || 15), 0)
totalPrepTime(cart) ==
  reducePrep(cart, 0)

\* distance ? Math.ceil((distance * 1000) / 100 * 2) : 15
\* `distance` is the route length; the view holds it in km, the model in
\* metres (distance * 1000), and Math.ceil(m / 100 * 2) of a whole number
\* of metres m is the integer division below
deliveryTime(distance) ==
  IF distance = NullInt \/ distance = 0 THEN FallbackDeliveryTime
  ELSE (distance * 2 + 99) \div 100

\* a total that adds each line's price once, whatever its quantity
RECURSIVE total_NoQuantity(_)
total_NoQuantity(cart) ==
  IF cart = <<>> THEN 0
  ELSE Head(cart).price + total_NoQuantity(Tail(cart))

\* cart.reduce((sum, item) => sum + item.price * item.quantity, 0)
RECURSIVE total(_)
total(cart) ==
  IF cart = <<>> THEN 0
  ELSE Head(cart).price * Head(cart).quantity + total(Tail(cart))

\* policy "Customers can insert order items for their orders"
OrderItemsInsertPolicy(uid, row) ==
  /\ orders[row.order_id] # NoOrder
  /\ orders[row.order_id].customer_id = uid

\* row level security is enabled on orders and no policy is FOR DELETE:
\* no row passes
OrdersDeletePolicy(uid, row) ==
  FALSE

\* what CustomerView.fetchOrders puts into the order list of c
FetchedOrders(c) ==
  [o \in OrderIds |->
     IF /\ orders[o] # NoOrder
        /\ OrdersSelectPolicy(c, orders[o])
        /\ orders[o].customer_id = c
        /\ InLastOrders(c, o)
     THEN orders[o].status ELSE NoView]

\* CustomerView.placeOrder up to the answer to  insert into orders:
\* the checks, the estimates, the INSERT.  `ok` = FALSE is the store not
\* answering (orderError).
placeOrderInsert(orderType, ok) ==
  /\ client.pc = "idle"
  /\ IF client.cart = <<>> \/ ~client.customerLocation
     THEN /\ client' = [client EXCEPT
                         !.toast = "Cart is empty or location is unavailable."]
          /\ UNCHANGED <<orders, order_details>>
     ELSE IF /\ orderType = "delivery"
             /\ (trim(client.houseNo) = <<>> \/ trim(client.phone) = <<>>)
     THEN /\ client' = [client EXCEPT
                         !.toast = "Please enter house number and phone number for delivery."]
          /\ UNCHANGED <<orders, order_details>>
     ELSE IF ~ok
     THEN /\ client' = [client EXCEPT !.toast = "Failed to create order."]
          /\ UNCHANGED <<orders, order_details>>
     ELSE \E o \in OrderIds :
            /\ orders[o] = NoOrder
            /\ \A p \in OrderIds : p < o => orders[p] # NoOrder
            /\ orders' = [orders EXCEPT ![o] =
                 [customer_id |-> client.user, delivery_boy_id |-> NULL,
                  status |-> "pending", order_type |-> orderType]]
            /\ order_details' = [order_details EXCEPT ![o] =
                 [total_price |-> total(client.cart),
                  estimated_prep_time |-> totalPrepTime(client.cart),
                  estimated_delivery_time |->
                    IF orderType = "delivery"
                    THEN deliveryTime(client.distance) ELSE NullInt,
                  house_no |-> IF orderType = "delivery"
                               THEN client.houseNo ELSE <<>>,
                  customer_phone |-> client.phone]]
            /\ client' = [client EXCEPT !.pc = "items", !.orderData = o]
  /\ UNCHANGED <<couriers, is_online, view, inflight, resp>>
  /\ UNCHANGED sessionVars
  /\ UNCHANGED <<menu_items, order_items, deleting, order_ratings, rating_resp>>

\* CustomerView.placeOrder from the answer to  insert into orders  to its
\* end: the INSERT of all cart lines in one statement (menu_item_id
\* REFERENCES menu_items, CHECK quantity > 0, CHECK price >= 0), and on an
\* error the DELETE of the order.  `ok` = FALSE is the store not answering.
placeOrderItems(ok) ==
  /\ client.pc = "items"
  /\ LET o == client.orderData
         orderItems ==
           {[order_id |-> o, menu_item_id |-> client.cart[i].id,
             quantity |-> client.cart[i].quantity,
             price |-> client.cart[i].price] : i \in 1..Len(client.cart)}
         itemsError ==
           \/ ~ok
           \/ \E r \in orderItems :
                \/ ~OrderItemsInsertPolicy(client.user, r)
                \/ ~menu_items[r.menu_item_id].present
                \/ r.quantity <= 0
                \/ r.price < 0
         deleted == /\ orders[o] # NoOrder
                    /\ OrdersSelectPolicy(client.user, orders[o])
                    /\ OrdersDeletePolicy(client.user, orders[o])
     IN IF itemsError
        THEN /\ orders' = IF deleted THEN [orders EXCEPT ![o] = NoOrder]
                          ELSE orders
             /\ order_details' = IF deleted
                                 THEN [order_details EXCEPT ![o] = NoDetails]
                                 ELSE order_details
             /\ client' = [client EXCEPT !.pc = "idle", !.orderData = 0,
                                         !.toast = "Failed to add items to order."]
             /\ UNCHANGED <<order_items, view>>
        ELSE /\ order_items' = order_items \cup orderItems
             /\ client' = [client EXCEPT !.pc = "idle", !.orderData = 0,
                                         !.cart = <<>>, !.houseNo = <<>>,
                                         !.phone = <<>>,
                                         !.toast = "Order placed successfully!",
                                         !.view = "orders"]
             /\ view' = [view EXCEPT ![client.user] = FetchedOrders(client.user)]
             /\ UNCHANGED <<orders, order_details>>
  /\ UNCHANGED <<couriers, is_online, inflight, resp>>
  /\ UNCHANGED sessionVars
  /\ UNCHANGED <<menu_items, deleting, order_ratings, rating_resp>>

\* CustomerView.fetchMenu: the rows the menu page shows
MenuShown(m) ==
  /\ menu_items[m].present
  /\ menu_items[m].is_available
  /\ ~menu_items[m].is_deleted

\* CustomerView.addToCart on an item of the menu page: one more of an item
\* already in the cart, else a new line with quantity 1 at the end
addToCart(m) ==
  /\ client.pc = "idle"
  /\ MenuShown(m)
  /\ \A i \in 1..Len(client.cart) :
       client.cart[i].id = m => client.cart[i].quantity < MaxQuantity
  /\ client' = [client EXCEPT !.cart =
       IF \E i \in 1..Len(client.cart) : client.cart[i].id = m
       THEN [i \in 1..Len(client.cart) |->
               IF client.cart[i].id = m
               THEN [client.cart[i] EXCEPT !.quantity = @ + 1]
               ELSE client.cart[i]]
       ELSE Append(client.cart,
              CartItem(m, menu_items[m].preparation_time_minutes, 1))]
  /\ UNCHANGED <<couriers, is_online, orders, view, inflight, resp>>
  /\ UNCHANGED sessionVars
  /\ UNCHANGED <<menu_items, order_items, order_details, deleting,
                 order_ratings, rating_resp>>

\* CustomerView.updateQuantity, called by the cart's - and + buttons with
\* the line's quantity - 1 and + 1: below 1 the line is removed
updateQuantity(itemId, newQuantity) ==
  /\ client.pc = "idle"
  /\ newQuantity <= MaxQuantity
  /\ \E i \in 1..Len(client.cart) :
       /\ client.cart[i].id = itemId
       /\ newQuantity \in {client.cart[i].quantity - 1,
                           client.cart[i].quantity + 1}
  /\ client' = [client EXCEPT !.cart =
       IF newQuantity < 1
       THEN SelectSeq(client.cart, LAMBDA item : item.id # itemId)
       ELSE [i \in 1..Len(client.cart) |->
               IF client.cart[i].id = itemId
               THEN [client.cart[i] EXCEPT !.quantity = newQuantity]
               ELSE client.cart[i]]]
  /\ UNCHANGED <<couriers, is_online, orders, view, inflight, resp>>
  /\ UNCHANGED sessionVars
  /\ UNCHANGED <<menu_items, order_items, order_details, deleting,
                 order_ratings, rating_resp>>

\* ------------------------------------------------------------- menu
\* policy "Order items are viewable by order participants"
OrderItemsSelectPolicy(uid, row) ==
  /\ orders[row.order_id] # NoOrder
  /\ \/ orders[row.order_id].customer_id = uid
     \/ orders[row.order_id].delivery_boy_id = uid
     \/ (HasProfile(uid) /\ user_type(uid) = "owner")

\* the policies ON menu_items FOR DELETE, all permissive: "Only owners can
\* delete menu items" and "Owners can delete unused menu items"
MenuItemsDeletePolicy(uid, m) ==
  \/ (HasProfile(uid) /\ user_type(uid) = "owner")
  \/ /\ HasProfile(uid) /\ user_type(uid) = "owner"
     /\ \A r \in order_items : r.menu_item_id # m

\* policy "Only owners can update menu items"
MenuItemsUpdatePolicy(uid) ==
  HasProfile(uid) /\ user_type(uid) = "owner"

\* order_items.menu_item_id REFERENCES menu_items(id) ON DELETE RESTRICT
Referenced(m) ==
  \E r \in order_items : r.menu_item_id = m

\* DELETE FROM menu_items WHERE id = m  as uid: the table afterwards and
\* whether the statement failed
DeleteMenuItem(uid, m) ==
  IF ~menu_items[m].present \/ ~MenuItemsDeletePolicy(uid, m)
  THEN [menu_items |-> menu_items, error |-> FALSE]
  ELSE IF Referenced(m)
  THEN [menu_items |-> menu_items, error |-> TRUE]
  ELSE [menu_items |-> [menu_items EXCEPT ![m] = NoItem], error |-> FALSE]

\* can_delete_menu_item(item_id), run with the rights of uid: no order
\* line that uid may read names the item
can_delete_menu_item(uid, m) ==
  \A r \in order_items :
    OrderItemsSelectPolicy(uid, r) => r.menu_item_id # m

\* OwnerView.handleDeleteItem up to confirm(): the dashboard looks for an
\* order line naming the item and refuses when it finds one
handleDeleteItemCheck(w, m) ==
  /\ deleting.item = 0
  /\ menu_items[m].present
  /\ IF \E r \in order_items :
          OrderItemsSelectPolicy(w, r) /\ r.menu_item_id = m
     THEN deleting' = [item |-> 0,
            toast |-> "Cannot delete item - it has been ordered before."]
     ELSE deleting' = [deleting EXCEPT !.item = m]
  /\ UNCHANGED <<couriers, is_online, orders, view, inflight, resp>>
  /\ UNCHANGED sessionVars
  /\ UNCHANGED <<menu_items, order_items, order_details, client,
                 order_ratings, rating_resp>>

\* OwnerView.handleDeleteItem from confirm() to its end: `confirmed` is
\* the owner's answer, then DELETE FROM menu_items and fetchMenuItems
handleDeleteItemConfirm(w, confirmed) ==
  /\ deleting.item # 0
  /\ LET r == DeleteMenuItem(w, deleting.item)
     IN IF ~confirmed
        THEN /\ deleting' = [deleting EXCEPT !.item = 0]
             /\ UNCHANGED menu_items
        ELSE /\ menu_items' = r.menu_items
             /\ deleting' = [item |-> 0, toast |->
                   IF r.error THEN "Cannot delete: Item has been ordered before"
                   ELSE "Menu item deleted successfully!"]
  /\ UNCHANGED <<couriers, is_online, orders, view, inflight, resp>>
  /\ UNCHANGED sessionVars
  /\ UNCHANGED <<order_items, order_details, client, order_ratings, rating_resp>>

\* any signed-in profile calls rpc soft_delete_menu_item(m) (GRANT EXECUTE
\* ... TO authenticated; the function runs with the caller's rights).  A
\* DELETE that the foreign key refuses aborts the call.
soft_delete_menu_item(a, m) ==
  /\ HasProfile(a)
  /\ IF can_delete_menu_item(a, m)
     THEN menu_items' = DeleteMenuItem(a, m).menu_items
     ELSE IF menu_items[m].present /\ MenuItemsUpdatePolicy(a)
     THEN menu_items' = [menu_items EXCEPT ![m].is_deleted = TRUE,
                                           ![m].is_available = FALSE]
     ELSE menu_items' = menu_items
  /\ UNCHANGED <<couriers, is_online, orders, view, inflight, resp>>
  /\ UNCHANGED sessionVars
  /\ UNCHANGED <<order_items, order_details, client, deleting,
                 order_ratings, rating_resp>>

\* an insert policy that lets every signed-in profile add menu items
MenuItemsInsertPolicy_Authenticated(uid) ==
  HasProfile(uid)

\* policy "Only owners can insert menu items"
MenuItemsInsertPolicy(uid) ==
  HasProfile(uid) /\ user_type(uid) = "owner"

\* INSERT INTO menu_items (price, ...) sent as a (NULL: no session); m is
\* the id the sequence hands out
InsertMenuItem(a, m, price) ==
  /\ ~menu_items[m].present
  /\ IF MenuItemsInsertPolicy(a)
     THEN /\ menu_items' = [menu_items EXCEPT ![m] =
                 [price |-> price, preparation_time_minutes |-> DefaultPrepTime,
                  is_available |-> TRUE, is_deleted |-> FALSE,
                  present |-> TRUE]]
          /\ menu_resp' = [actor |-> a, op |-> "insert", error |-> "none",
                           rows |-> 1]
     ELSE /\ menu_items' = menu_items
          /\ menu_resp' = [actor |-> a, op |-> "insert", error |-> "42501",
                           rows |-> 0]
  /\ UNCHANGED <<couriers, is_online, orders, view, inflight, resp>>
  /\ UNCHANGED <<profiles, auth, restaurant_online, later_orders>>
  /\ UNCHANGED <<order_items, order_details, client, deleting,
                 order_ratings, rating_resp>>

\* UPDATE menu_items SET is_available = avail WHERE id = m  sent as a
UpdateMenuItem(a, m, avail) ==
  /\ LET touched == menu_items[m].present /\ MenuItemsUpdatePolicy(a)
     IN  /\ menu_items' = IF touched
                          THEN [menu_items EXCEPT ![m].is_available = avail]
                          ELSE menu_items
         /\ menu_resp' = [actor |-> a, op |-> "update", error |-> "none",
                          rows |-> IF touched THEN 1 ELSE 0]
  /\ UNCHANGED <<couriers, is_online, orders, view, inflight, resp>>
  /\ UNCHANGED <<profiles, auth, restaurant_online, later_orders>>
  /\ UNCHANGED <<order_items, order_details, client, deleting,
                 order_ratings, rating_resp>>

\* DELETE FROM menu_items WHERE id = m  sent as a
DirectMenuDelete(a, m) ==
  /\ menu_items' = DeleteMenuItem(a, m).menu_items
  /\ menu_resp' = [actor |-> a, op |-> "delete",
                   error |-> IF DeleteMenuItem(a, m).error THEN "23503"
                             ELSE "none",
                   rows |-> IF DeleteMenuItem(a, m).menu_items # menu_items
                            THEN 1 ELSE 0]
  /\ UNCHANGED <<couriers, is_online, orders, view, inflight, resp>>
  /\ UNCHANGED <<profiles, auth, restaurant_online, later_orders>>
  /\ UNCHANGED <<order_items, order_details, client, deleting,
                 order_ratings, rating_resp>>

\* OwnerView.toggleRestaurantStatus: the switch in the dashboard's header
\* flips isRestaurantOnline and writes it to the owner's profile row
toggleRestaurantStatus(w) ==
  /\ restaurant_online' = ~restaurant_online
  /\ UNCHANGED <<couriers, is_online, orders, view, inflight, resp>>
  /\ UNCHANGED <<shopVars, profiles, auth, menu_resp, later_orders>>

\* ---------------------------------------------------------- polling
\* the bottom navigation of CustomerView: setView, and the effect that
\* fetches the orders when the orders tab opens on an empty list
setView(v) ==
  /\ client.pc = "idle"
  /\ client' = [client EXCEPT !.view = v]
  /\ view' = IF v = "orders" /\ \A o \in OrderIds : view[client.user][o] = NoView
             THEN [view EXCEPT ![client.user] = FetchedOrders(client.user)]
             ELSE view
  /\ UNCHANGED <<couriers, is_online, orders, inflight, resp>>
  /\ UNCHANGED sessionVars
  /\ UNCHANGED <<menu_items, order_items, order_details, deleting,
                 order_ratings, rating_resp>>

\* CustomerView.placeOrder once the ids of OrderIds are used up: the
\* customer has one more order, of which only the number is kept
placeLaterOrder(c) ==
  /\ \A o \in OrderIds : orders[o] # NoOrder
  /\ later_orders[c] < MaxLaterOrders
  /\ later_orders' = [later_orders EXCEPT ![c] = @ + 1]
  /\ UNCHANGED <<couriers, is_online, orders, view, inflight, resp>>
  /\ UNCHANGED <<shopVars, profiles, auth, restaurant_online, menu_resp>>

\* CustomerView's setInterval, every 10 s: fetchOrders if view === 'orders'
orderPolling ==
  /\ client.view = "orders"
  /\ CustomerFetchOrders(client.user)

\* OwnerView's setInterval, every 15 s
OwnerPolling(w) ==
  OwnerFetchOrders(w)

\* DeliveryView's setInterval, every 10 s
DeliveryPolling(d) ==
  DeliveryFetchOrders(d)

\* ---------------------------------------------------------- ratings
\* an insert policy that does not look at the order's status
OrderRatingsInsertPolicy_AnyStatus(uid, row) ==
  /\ uid = row.customer_id
  /\ orders[row.order_id] # NoOrder
  /\ orders[row.order_id].customer_id = uid

\* an insert policy that does not look at the order's customer
OrderRatingsInsertPolicy_AnyOrder(uid, row) ==
  /\ uid = row.customer_id
  /\ orders[row.order_id] # NoOrder
  /\ orders[row.order_id].status = "delivered"

\* policy "Customers can insert ratings for delivered orders"
OrderRatingsInsertPolicy(uid, row) ==
  /\ uid = row.customer_id
  /\ orders[row.order_id] # NoOrder
  /\ OrdersSelectPolicy(uid, orders[row.order_id])
  /\ orders[row.order_id].customer_id = uid
  /\ orders[row.order_id].status = "delivered"

\* policy "Customers can view their own ratings"
OrderRatingsSelectPolicy(uid, row) ==
  \/ uid = row.customer_id
  \/ (HasProfile(uid) /\ user_type(uid) = "owner")

\* policy "Customers can update their own ratings"
OrderRatingsUpdatePolicy(uid, row) ==
  uid = row.customer_id

\* CHECK (rating >= 1 AND rating <= 5)
RatingCheck(row) ==
  row.rating >= 1 /\ row.rating <= 5

\* an order_ratings table without UNIQUE(order_id)
InsertRating_NoUnique(uid, row) ==
  IF ~OrderRatingsInsertPolicy(uid, row)
  THEN [order_ratings |-> order_ratings, error |-> "42501"]
  ELSE IF ~RatingCheck(row)
  THEN [order_ratings |-> order_ratings, error |-> "23514"]
  ELSE [order_ratings |-> order_ratings \cup
          {[id |-> Cardinality(order_ratings) + 1, order_id |-> row.order_id,
            customer_id |-> row.customer_id, rating |-> row.rating]},
        error |-> "none"]

\* INSERT INTO order_ratings as uid: the table afterwards and the SQLSTATE
\* handed back (42501 row level security, 23514 check, 23505 unique).
\* PostgreSQL applies the policy's WITH CHECK first, then the constraints
\* of the row, then the unique index.
InsertRating(uid, row) ==
  IF ~OrderRatingsInsertPolicy(uid, row)
  THEN [order_ratings |-> order_ratings, error |-> "42501"]
  ELSE IF ~RatingCheck(row)
  THEN [order_ratings |-> order_ratings, error |-> "23514"]
  ELSE IF \E r \in order_ratings : r.order_id = row.order_id
  THEN [order_ratings |-> order_ratings, error |-> "23505"]
  ELSE [order_ratings |-> order_ratings \cup
          {[id |-> Cardinality(order_ratings) + 1, order_id |-> row.order_id,
            customer_id |-> row.customer_id, rating |-> row.rating]},
        error |-> "none"]

\* UPDATE order_ratings SET order_id, customer_id, rating WHERE id = old.id
\* followed by .select().single(): no row touched is error PGRST116
UpdateRating(uid, old, row) ==
  LET new == [old EXCEPT !.order_id = row.order_id,
                         !.customer_id = row.customer_id,
                         !.rating = row.rating]
  IN IF \/ old \notin order_ratings
        \/ ~OrderRatingsSelectPolicy(uid, old)
        \/ ~OrderRatingsUpdatePolicy(uid, old)
     THEN [order_ratings |-> order_ratings, error |-> "PGRST116"]
     ELSE IF \/ ~OrderRatingsUpdatePolicy(uid, new)
             \/ ~OrderRatingsSelectPolicy(uid, new)
     THEN [order_ratings |-> order_ratings, error |-> "42501"]
     ELSE IF ~RatingCheck(new)
     THEN [order_ratings |-> order_ratings, error |-> "23514"]
     ELSE IF \E r \in order_ratings \ {old} : r.order_id = new.order_id
     THEN [order_ratings |-> order_ratings, error |-> "23505"]
     ELSE [order_ratings |-> (order_ratings \ {old}) \cup {new},
           error |-> "none"]

\* any signed-in profile sends  INSERT INTO order_ratings  through the
\* REST API, naming any customer_id
DirectRatingInsert(a, o, c, stars) ==
  /\ HasProfile(a)
  /\ LET r == InsertRating(a, [order_id |-> o, customer_id |-> c,
                               rating |-> stars])
     IN /\ order_ratings' = r.order_ratings
        /\ rating_resp' = [actor |-> a, order |-> o, error |-> r.error]
  /\ UNCHANGED <<couriers, is_online, orders, view, inflight, resp>>
  /\ UNCHANGED sessionVars
  /\ UNCHANGED <<menu_items, order_items, order_details, client, deleting>>

\* RatingModal.handleSubmit of the signed-in profile a for order o with
\* `stars` selected; `existing` is the existingRating prop (a rating of
\* this order that a may read), 0 when there is none
handleSubmit(a, o, existing, stars) ==
  /\ HasProfile(a)
  /\ existing \in {0} \cup {r.id : r \in
         {q \in order_ratings :
            q.order_id = o /\ OrderRatingsSelectPolicy(a, q)}}
  /\ LET ratingData == [order_id |-> o, customer_id |-> a, rating |-> stars]
         r == IF existing = 0 THEN InsertRating(a, ratingData)
              ELSE UpdateRating(a,
                     CHOOSE q \in order_ratings : q.id = existing, ratingData)
     IN IF stars = 0
        THEN /\ rating_resp' = [actor |-> a, order |-> o,
                                error |-> "Please select a rating"]
             /\ UNCHANGED order_ratings
        ELSE /\ order_ratings' = r.order_ratings
             /\ rating_resp' = [actor |-> a, order |-> o, error |-> r.error]
  /\ UNCHANGED <<couriers, is_online, orders, view, inflight, resp>>
  /\ UNCHANGED sessionVars
  /\ UNCHANGED <<menu_items, order_items, order_details, client, deleting>>

\* ------------------------------------------------------------ sign-up
\* Auth.getRole: the role the deployment's environment gives the e-mail
\* address (u2 signs up with VITE_DELIVERY_EMAIL)
getRole(u) ==
  IF u = "u2" THEN "delivery" ELSE "customer"

\* the profile of an identity, NULL when it has none (maybeSingle)
ProfileOf(id) ==
  IF \E r \in profiles : r.id = id
  THEN (CHOOSE r \in profiles : r.id = id).user_type
  ELSE NULL

\* policy "Users can insert their own profile"
ProfilesInsertPolicy(uid, row) ==
  uid = row.id

\* policy "Users can update their own profile": USING (auth.uid() = id)
ProfilesUpdatePolicy(uid, row) ==
  uid = row.id

\* INSERT INTO profiles as uid: the policy, then the primary key
InsertProfileError(uid, row) ==
  IF ~ProfilesInsertPolicy(uid, row) THEN "42501"
  ELSE IF \E r \in profiles : r.id = row.id THEN "23505"
  ELSE "none"

InsertProfile(uid, row) ==
  IF InsertProfileError(uid, row) = "none" THEN profiles \cup {row}
  ELSE profiles

\* UPDATE profiles SET user_type = role WHERE id = id, sent as uid: the rows
\* the policy lets uid touch; the new row is checked by the same expression
UpdateProfileRole(uid, id, role) ==
  {IF r.id = id /\ ProfilesUpdatePolicy(uid, r)
          /\ ProfilesUpdatePolicy(uid, [r EXCEPT !.user_type = role])
   THEN [r EXCEPT !.user_type = role] ELSE r : r \in profiles}

\* who the requests of u's browser are sent as
SessionOf(u) ==
  IF auth[u].session THEN u ELSE NULL

\* supabase.auth.signUp of handleAuth: the identity is inserted and the
\* trigger on_auth_user_created runs handle_new_user in the same
\* transaction (ok: its INSERT succeeded, otherwise the exception handler
\* swallowed the error); confirmed: the project confirms e-mails itself, so
\* the call returns a session and AuthProvider hears SIGNED_IN
signUp(u, ok, confirmed) ==
  /\ auth[u].pc = "form"
  /\ profiles' = IF ok THEN profiles \cup {[id |-> u, user_type |-> getRole(u)]}
                 ELSE profiles
  /\ auth' = [auth EXCEPT ![u].pc = "signed_up",
                          ![u].session = confirmed,
                          ![u].provider = IF confirmed THEN "fetch" ELSE "idle"]
  /\ UNCHANGED <<couriers, is_online, orders, view, inflight, resp>>
  /\ UNCHANGED <<shopVars, dashVars>>

\* handleAuth after the 500 ms wait: "Check if profile was created by trigger"
handleAuthCheck(u) ==
  /\ auth[u].pc = "signed_up"
  /\ auth' = [auth EXCEPT ![u].pc = "checked",
                          ![u].existingProfile = ProfileOf(u)]
  /\ UNCHANGED <<couriers, is_online, orders, view, inflight, resp>>
  /\ UNCHANGED <<shopVars, profiles, dashVars>>

\* handleAuth from the fallback insert to the toast
handleAuthFinish(u) ==
  /\ auth[u].pc = "checked"
  /\ LET row == [id |-> u, user_type |-> getRole(u)]
         existing == auth[u].existingProfile
     IN  IF existing = NULL
         THEN /\ profiles' = InsertProfile(SessionOf(u), row)
              /\ auth' = [auth EXCEPT
                   ![u].pc = "done",
                   ![u].toast =
                      IF InsertProfileError(SessionOf(u), row) = "none"
                      THEN "Account created! Signing you in..."
                      ELSE "Account created but profile setup failed"]
         ELSE /\ profiles' =
                   IF existing = "customer" /\ getRole(u) # "customer"
                   THEN UpdateProfileRole(SessionOf(u), u, getRole(u))
                   ELSE profiles
              /\ auth' = [auth EXCEPT
                   ![u].pc = "done",
                   ![u].toast = "Account created! Signing you in..."]
  /\ UNCHANGED <<couriers, is_online, orders, view, inflight, resp>>
  /\ UNCHANGED <<shopVars, dashVars>>

\* AuthProvider on SIGNED_IN: fetchOrCreateProfile reads the profile
fetchOrCreateProfileFetch(u) ==
  /\ auth[u].provider = "fetch"
  /\ auth' = [auth EXCEPT ![u].provider =
                 IF ProfileOf(u) # NULL THEN "done" ELSE "create"]
  /\ UNCHANGED <<couriers, is_online, orders, view, inflight, resp>>
  /\ UNCHANGED <<shopVars, profiles, dashVars>>

\* fetchOrCreateProfile: "Profile doesn't exist, create it quickly"
fetchOrCreateProfileInsert(u) ==
  /\ auth[u].provider = "create"
  /\ profiles' = InsertProfile(SessionOf(u), [id |-> u, user_type |-> getRole(u)])
  /\ auth' = [auth EXCEPT ![u].provider = "done"]
  /\ UNCHANGED <<couriers, is_online, orders, view, inflight, resp>>
  /\ UNCHANGED <<shopVars, dashVars>>

\* a signed-in user sends UPDATE profiles SET user_type = role WHERE id = id
\* with the project's public key
DirectProfileUpdate(a, id, role) ==
  /\ auth[a].session
  /\ profiles' = UpdateProfileRole(a, id, role)
  /\ UNCHANGED <<couriers, is_online, orders, view, inflight, resp>>
  /\ UNCHANGED <<shopVars, auth, dashVars>>

\* --------------------------------------------------- specifications
\* customers placing orders, the owner dashboard and the delivery dashboards

Next ==
  \/ \E d \in CourierIds : handle_new_user(d)
  \/ \E d \in CourierIds : toggleOnlineStatus(d)
  \/ \E c \in Customers, o \in OrderIds, t \in OrderType : placeOrder(c, o, t)
  \/ \E w \in OwnerIds : OwnerFetchOrders(w)
  \/ \E d \in CourierIds : DeliveryFetchOrders(d)
  \/ \E w \in OwnerIds, o \in OrderIds, p \in CourierIds \cup {NULL} :
        updateOrderStatus(w, o, p)
  \/ \E d \in CourierIds, o \in OrderIds : handleOrderAction(d, o)
  \/ \E req \in BagToSet(inflight) : ApplyUpdate(req)
  \/ \E req \in BagToSet(inflight) : UpdateFails(req)

Spec == Init /\ [][Next]_vars

\* the tables behind the REST API, every signed-in profile calling it freely
NextApi ==
  \/ \E d \in CourierIds : handle_new_user(d)
  \/ \E d \in CourierIds : toggleOnlineStatus(d)
  \/ \E c \in Customers, o \in OrderIds, t \in OrderType : placeOrder(c, o, t)
  \/ \E a \in Profiles, o \in OrderIds, st \in OrderStatus,
        setDb \in BOOLEAN, db \in CourierIds \cup {NULL} :
        DirectUpdate(a, o, st, setDb, db)
  \/ \E a \in Profiles, o \in OrderIds, row \in OrderRow :
        DirectInsert(a, o, row)
  \/ \E a \in Profiles, o \in OrderIds : RpcAutoAssign(a, o)

SpecApi == Init /\ [][NextApi]_vars

\* one customer session placing an order: the cart, the address form, the
\* location and the route distance are whatever the customer and the
\* routing service have put there
PrepTimes   == {NullInt, 10, 15, 25}
Distances   == {NullInt, 0, 650, 1200}
HouseNos    == {<<>>, <<" ", " ">>, <<" ", "7">>}
Phones      == {<<>>, <<" ">>, <<"9">>}

\* the carts whose lines are distinct menu items (addToCart raises the
\* quantity of an item already in the cart), listed by ascending id
IdLists ==
  {ids \in UNION {[1..n -> MenuIds] : n \in 0..Cardinality(MenuIds)} :
     \A i \in 1..(Len(ids) - 1) : ids[i] < ids[i + 1]}

Carts ==
  UNION {{[i \in 1..Len(ids) |-> CartItem(ids[i], ps[i], qs[i])] :
            ps \in [1..Len(ids) -> PrepTimes],
            qs \in [1..Len(ids) -> 1..MaxQuantity]} : ids \in IdLists}

InitPlace ==
  /\ couriers = <<>>
  /\ is_online = [d \in CourierIds |-> TRUE]
  /\ orders = [o \in OrderIds |-> NoOrder]
  /\ view = [a \in Profiles |-> [o \in OrderIds |-> NoView]]
  /\ inflight = EmptyBag
  /\ resp = NoResp
  /\ InitSession
  /\ menu_items = InitialMenu
  /\ order_items = {}
  /\ order_details = [o \in OrderIds |-> NoDetails]
  /\ \E cart \in Carts, h \in HouseNos, ph \in Phones, dist \in Distances,
        loc \in BOOLEAN :
        /\ ~loc => dist = NullInt
        /\ client = [IdleClient EXCEPT !.cart = cart, !.houseNo = h,
                                       !.phone = ph, !.distance = dist,
                                       !.customerLocation = loc]
  /\ deleting = NoDeleting
  /\ order_ratings = {}
  /\ rating_resp = NoRatingResp

NextPlace ==
  \/ \E t \in OrderType, ok \in BOOLEAN : placeOrderInsert(t, ok)
  \/ \E ok \in BOOLEAN : placeOrderItems(ok)

SpecPlace == InitPlace /\ [][NextPlace]_vars

\* one customer session filling the cart from the menu page and placing
\* the order
InitCart ==
  /\ couriers = <<>>
  /\ is_online = [d \in CourierIds |-> TRUE]
  /\ orders = [o \in OrderIds |-> NoOrder]
  /\ view = [a \in Profiles |-> [o \in OrderIds |-> NoView]]
  /\ inflight = EmptyBag
  /\ resp = NoResp
  /\ InitSession
  /\ menu_items = InitialMenu
  /\ order_items = {}
  /\ order_details = [o \in OrderIds |-> NoDetails]
  /\ \E h \in HouseNos, dist \in Distances :
        client = [IdleClient EXCEPT !.houseNo = h, !.phone = <<"9">>,
                                   !.distance = dist,
                                   !.customerLocation = TRUE]
  /\ deleting = NoDeleting
  /\ order_ratings = {}
  /\ rating_resp = NoRatingResp

NextCart ==
  \/ \E m \in MenuIds : addToCart(m)
  \/ \E m \in MenuIds, q \in 0..MaxQuantity : updateQuantity(m, q)
  \/ \E t \in OrderType, ok \in BOOLEAN : placeOrderInsert(t, ok)
  \/ \E ok \in BOOLEAN : placeOrderItems(ok)

SpecCart == InitCart /\ [][NextCart]_vars

\* the owner deleting menu items while a customer, with some of them in
\* the cart, places an order
InitMenu ==
  /\ couriers = <<>>
  /\ is_online = [d \in CourierIds |-> TRUE]
  /\ orders = [o \in OrderIds |-> NoOrder]
  /\ view = [a \in Profiles |-> [o \in OrderIds |-> NoView]]
  /\ inflight = EmptyBag
  /\ resp = NoResp
  /\ InitSession
  /\ menu_items = InitialMenu
  /\ order_items = {}
  /\ order_details = [o \in OrderIds |-> NoDetails]
  /\ \E ids \in IdLists :
        client = [IdleClient EXCEPT
                    !.cart = [i \in 1..Len(ids) |->
                                CartItem(ids[i], DefaultPrepTime, 1)],
                    !.houseNo = <<"7">>, !.phone = <<"9">>,
                    !.customerLocation = TRUE]
  /\ deleting = NoDeleting
  /\ order_ratings = {}
  /\ rating_resp = NoRatingResp

NextMenu ==
  \/ \E t \in OrderType, ok \in BOOLEAN : placeOrderInsert(t, ok)
  \/ \E ok \in BOOLEAN : placeOrderItems(ok)
  \/ \E w \in OwnerIds, m \in MenuIds : handleDeleteItemCheck(w, m)
  \/ \E w \in OwnerIds, confirmed \in BOOLEAN :
        handleDeleteItemConfirm(w, confirmed)
  \/ \E a \in Profiles, m \in MenuIds : soft_delete_menu_item(a, m)

SpecMenu == InitMenu /\ [][NextMenu]_vars

\* ratings submitted by every profile against every content of the orders
\* table, while the owner goes on changing the status of orders.  0 stars
\* is no star selected, 6 a rating the REST API is sent past the modal.
ModalStars == {0, 1, 5}
ApiStars   == {0, 1, 5, 6}

InitRating ==
  /\ couriers = <<"d1", "d2">>
  /\ is_online = [d \in CourierIds |-> TRUE]
  /\ orders \in [OrderIds -> OrderRow \cup {NoOrder}]
  /\ view = [a \in Profiles |-> [o \in OrderIds |-> NoView]]
  /\ inflight = EmptyBag
  /\ resp = NoResp
  /\ InitSession
  /\ InitShop

NextRating ==
  \/ \E a \in Profiles, o \in OrderIds, c \in Customers, stars \in ApiStars :
        DirectRatingInsert(a, o, c, stars)
  \/ \E a \in Profiles, o \in OrderIds, stars \in ModalStars :
        \E existing \in {0} \cup {r.id : r \in order_ratings} :
          handleSubmit(a, o, existing, stars)
  \/ \E w \in OwnerIds, o \in OrderIds, st \in OrderStatus :
        DirectUpdate(w, o, st, FALSE, NULL)

SpecRating == InitRating /\ [][NextRating]_vars

\* what each client reads: the fetches of the three dashboards, applied to
\* every content of the tables (each is reached under SpecApi: an owner may
\* write any status and any delivery_boy_id)
InitRead ==
  /\ couriers \in {<<>>, <<"d1">>, <<"d2">>, <<"d1", "d2">>, <<"d2", "d1">>}
  /\ is_online = [d \in CourierIds |-> TRUE]
  /\ orders \in [OrderIds -> OrderRow \cup {NoOrder}]
  /\ \A o \in OrderIds :
       orders[o].delivery_boy_id \in Range(couriers) \cup {NULL}
  /\ view = [a \in Profiles |-> [o \in OrderIds |-> NoView]]
  /\ inflight = EmptyBag
  /\ resp = NoResp
  /\ InitSession
  /\ InitShop

NextRead ==
  \/ \E c \in Customers : CustomerFetchOrders(c)
  \/ \E w \in OwnerIds : OwnerFetchOrders(w)
  \/ \E d \in CourierIds : DeliveryFetchOrders(d)

SpecRead == InitRead /\ [][NextRead]_vars

\* every client, signed in or not, inserts, updates and deletes menu items;
\* one order line names item 1
Clients == Profiles \cup {NULL}
MenuPrices == {30, 50}

InitMenuApi ==
  /\ couriers = <<"d1", "d2">>
  /\ is_online = [d \in CourierIds |-> TRUE]
  /\ orders = [o \in OrderIds |->
                 [customer_id |-> "c1", delivery_boy_id |-> NULL,
                  status |-> "pending", order_type |-> "pickup"]]
  /\ view = [a \in Profiles |-> [o \in OrderIds |-> NoView]]
  /\ inflight = EmptyBag
  /\ resp = NoResp
  /\ InitSession
  /\ menu_items = [InitialMenu EXCEPT ![3] = NoItem]
  /\ order_items = {[order_id |-> 1, menu_item_id |-> 1, quantity |-> 1,
                     price |-> InitialMenu[1].price]}
  /\ order_details = [o \in OrderIds |->
                        [NoDetails EXCEPT !.total_price = InitialMenu[1].price]]
  /\ client = IdleClient
  /\ deleting = NoDeleting
  /\ order_ratings = {}
  /\ rating_resp = NoRatingResp

NextMenuApi ==
  \/ \E a \in Clients, m \in MenuIds, price \in MenuPrices :
        InsertMenuItem(a, m, price)
  \/ \E a \in Clients, m \in MenuIds, avail \in BOOLEAN :
        UpdateMenuItem(a, m, avail)
  \/ \E a \in Clients, m \in MenuIds : DirectMenuDelete(a, m)
  \/ \E a \in Profiles, m \in MenuIds : soft_delete_menu_item(a, m)

SpecMenuApi == InitMenuApi /\ [][NextMenuApi]_vars

\* the owner switches the restaurant off and on while the customer orders
NextOffline ==
  \/ \E w \in OwnerIds : toggleRestaurantStatus(w)
  \/ \E t \in OrderType, ok \in BOOLEAN : placeOrderInsert(t, ok)
  \/ \E ok \in BOOLEAN : placeOrderItems(ok)

SpecOffline == InitMenu /\ [][NextOffline]_vars

\* the three dashboards stay mounted while orders are created and changed;
\* a change notification may or may not arrive (the fetches it triggers
\* are not forced to happen), the timers keep firing and their fetches
\* succeed
InitPoll ==
  /\ couriers = <<"d1">>
  /\ is_online = [d \in CourierIds |-> TRUE]
  /\ orders = [o \in OrderIds |-> NoOrder]
  /\ view = [a \in Profiles |-> [o \in OrderIds |-> NoView]]
  /\ inflight = EmptyBag
  /\ resp = NoResp
  /\ InitSession
  /\ InitShop

NextPoll ==
  \/ \E o \in OrderIds, t \in OrderType : placeOrder(client.user, o, t)
  \/ \E a \in OwnerIds \cup CourierIds, o \in OrderIds, st \in OrderStatus :
        DirectUpdate(a, o, st, FALSE, NULL)
  \/ placeLaterOrder(client.user)
  \/ \E v \in {"menu", "orders"} : setView(v)
  \/ CustomerFetchOrders(client.user)
  \/ \E w \in OwnerIds : OwnerFetchOrders(w)
  \/ \E d \in CourierIds : DeliveryFetchOrders(d)
  \/ orderPolling
  \/ \E w \in OwnerIds : OwnerPolling(w)
  \/ \E d \in CourierIds : DeliveryPolling(d)

SpecPoll ==
  /\ InitPoll
  /\ [][NextPoll]_vars
  /\ WF_vars(orderPolling)
  /\ \A w \in OwnerIds : WF_vars(OwnerPolling(w))
  /\ \A d \in CourierIds : WF_vars(DeliveryPolling(d))

\* two identities sign up; signed-in users also write to their profile row
\* directly
NextAuth ==
  \/ \E u \in Registrants, ok \in BOOLEAN, confirmed \in BOOLEAN :
        signUp(u, ok, confirmed)
  \/ \E u \in Registrants : handleAuthCheck(u)
  \/ \E u \in Registrants : handleAuthFinish(u)
  \/ \E u \in Registrants : fetchOrCreateProfileFetch(u)
  \/ \E u \in Registrants : fetchOrCreateProfileInsert(u)
  \/ \E a \in Registrants, id \in Registrants, role \in UserRole :
        DirectProfileUpdate(a, id, role)

SpecAuth == Init /\ [][NextAuth]_vars

\* ============================================================ claims
\* the transition table of the order status state machine
OwnerEdges    == {<<"pending", "confirmed">>, <<"confirmed", "preparing">>,
                  <<"preparing", "ready">>}
DeliveryEdges == {<<"ready", "picked_up">>, <<"picked_up", "delivered">>}
TransitionTable == OwnerEdges \cup DeliveryEdges

\* the status of order o changes in this step, from `from` to `to`
Moves(o, from, to) ==
  /\ orders[o] # NoOrder
  /\ orders[o].status = from
  /\ orders'[o].status = to

\* C1: the stored status of an order changes only along the edges
\* pending -> confirmed -> preparing -> ready -> picked_up -> delivered,
\* whatever updates the dashboards send (also from a stale order list).
C1_OnlyTableEdges ==
  [][\A o \in OrderIds :
       (orders[o] # NoOrder /\ orders'[o].status # orders[o].status)
         => <<orders[o].status, orders'[o].status>> \in TransitionTable]_vars

\* C2: a courier's claim (status := picked_up, delivery_boy_id := self)
\* that reaches an unassigned ready delivery order first wins it: the order
\* becomes picked_up with this courier as delivery_boy_id.  (Of two
\* concurrent claims the one applied first finds the order in this state.)
C2_FirstClaimWins ==
  [][\A d \in CourierIds, o \in OrderIds :
       ( /\ DirectUpdate(d, o, "picked_up", TRUE, d)
         /\ orders[o] # NoOrder
         /\ orders[o].status = "ready"
         /\ orders[o].order_type = "delivery"
         /\ orders[o].delivery_boy_id = NULL )
       => ( /\ orders'[o].status = "picked_up"
            /\ orders'[o].delivery_boy_id = d
            /\ ~resp'.error )]_vars

\* C3: once an order is delivered or cancelled, neither its status nor its
\* delivery_boy_id changes again.
C3_TerminalImmutable ==
  [][\A o \in OrderIds :
       orders[o].status \in {"delivered", "cancelled"}
         => /\ orders'[o].status = orders[o].status
            /\ orders'[o].delivery_boy_id = orders[o].delivery_boy_id]_vars

\* C4: a courier's ready -> picked_up request on an order that is assigned
\* to a different courier is answered with an error and changes neither
\* status nor delivery_boy_id.
C4_ForeignClaimRejected ==
  [][\A req \in BagToSet(inflight) :
       ( /\ ApplyUpdate(req)
         /\ user_type(req.actor) = "delivery"
         /\ req.status = "picked_up"
         /\ orders[req.order] # NoOrder
         /\ orders[req.order].delivery_boy_id \notin {NULL, req.actor} )
       => ( /\ resp'.error
            /\ orders'[req.order] = orders[req.order] )]_vars

\* C5: every status change along an owner edge is the effect of a request
\* by an owner, every change along a delivery edge the effect of a request
\* by a delivery profile.
C5_RolePerEdge ==
  [][\A o \in OrderIds :
       (orders[o] # NoOrder /\ orders'[o].status # orders[o].status)
         => LET e == <<orders[o].status, orders'[o].status>>
            IN /\ e \in OwnerEdges => user_type(resp'.actor) = "owner"
               /\ e \in DeliveryEdges => user_type(resp'.actor) = "delivery"]_vars

C7_AssignedOnlyFromReady ==
  \A o \in OrderIds :
    (orders[o] # NoOrder /\ orders[o].delivery_boy_id # NULL)
      => /\ orders[o].order_type = "delivery"
         /\ orders[o].status \in {"ready", "picked_up", "delivered"}

\* the courier the assignment policy names: the oldest online delivery
\* profile, else the oldest delivery profile, else nobody
PolicyAssignee ==
  LET online == {i \in 1..Len(couriers) : is_online[couriers[i]]}
  IN IF online # {}
     THEN couriers[CHOOSE i \in online : \A j \in online : i <= j]
     ELSE IF Len(couriers) > 0 THEN couriers[1]
     ELSE NULL

\* C8: when an unassigned delivery order becomes ready, its delivery_boy_id
\* becomes the courier the assignment policy names (owner dashboard path
\* and trigger path alike).
C8_AssignmentFollowsPolicy ==
  [][\A o \in OrderIds :
       ( /\ orders[o] # NoOrder
         /\ orders[o].status # "ready"
         /\ orders'[o].status = "ready"
         /\ orders[o].order_type = "delivery"
         /\ orders[o].delivery_boy_id = NULL )
       => orders'[o].delivery_boy_id = PolicyAssignee]_vars

\* C9: marking an order ready in the owner dashboard, which runs the
\* auto-assignment, leaves an already set delivery_boy_id as it is.
C9_AssignmentIdempotent ==
  [][\A req \in BagToSet(inflight) :
       ( /\ ApplyUpdate(req)
         /\ user_type(req.actor) = "owner"
         /\ req.status = "ready"
         /\ orders[req.order].delivery_boy_id # NULL )
       => orders'[req.order].delivery_boy_id
            = orders[req.order].delivery_boy_id]_vars

C11_PoolReadable ==
  \A d \in Range(couriers), o \in OrderIds :
    (/\ orders[o] # NoOrder
     /\ orders[o].order_type = "delivery"
     /\ orders[o].status = "ready"
     /\ orders[o].delivery_boy_id = NULL)
      => OrdersSelectPolicy(d, orders[o])

\* C12: every order that comes into existence has status pending in the
\* state it is created in, whatever columns the creating request carries.
C12_CreatedPending ==
  [][\A o \in OrderIds :
       (orders[o] = NoOrder /\ orders'[o] # NoOrder)
         => orders'[o].status = "pending"]_vars

\* C13: an order and its lines come into existence together: in every
\* state every order in the orders table has at least one line in
\* order_items.
C13_OrderHasLines ==
  \A o \in OrderIds :
    orders[o] # NoOrder => \E r \in order_items : r.order_id = o

\* the owner asks, in this step, for menu item m to be deleted: through the
\* dashboard's delete button or through soft_delete_menu_item
DeleteRequested(m) ==
  \/ \E w \in OwnerIds : handleDeleteItemCheck(w, m)
  \/ \E w \in OwnerIds : deleting.item = m /\ handleDeleteItemConfirm(w, TRUE)
  \/ \E w \in OwnerIds : soft_delete_menu_item(w, m)

\* C14: an owner's delete request for a menu item that an order line
\* names leaves the row in the table, marked is_deleted and unavailable;
\* and in every state reached every order line's menu item exists.
C14_ReferencedSoftDeleted ==
  [][/\ \A m \in MenuIds :
          (Referenced(m) /\ DeleteRequested(m))
            => /\ menu_items'[m].present
               /\ menu_items'[m].is_deleted
               /\ ~menu_items'[m].is_available
     /\ \A r \in order_items' : menu_items'[r.menu_item_id].present]_vars

\* profile a submits, in this step, a new rating of `stars` stars for
\* order o in the name of customer c: an INSERT through the API, or the
\* modal's submit with no existing rating (the modal names a itself)
SubmitsNewRating(a, o, c, stars) ==
  \/ DirectRatingInsert(a, o, c, stars)
  \/ (c = a /\ stars # 0 /\ handleSubmit(a, o, 0, stars))

\* C15: submitting a new rating for an order whose status is not
\* delivered fails with the policy violation and creates no rating row.
C15_NotDeliveredRejected ==
  [][\A a \in Profiles, o \in OrderIds, c \in Customers, stars \in ApiStars :
       (/\ SubmitsNewRating(a, o, c, stars)
        /\ orders[o] # NoOrder
        /\ orders[o].status # "delivered")
         => /\ order_ratings' = order_ratings
            /\ rating_resp'.error = "42501"]_vars

\* C15 witness: the order's own customer has submitted a rating for the
\* order, which is not delivered, and was refused; there is no rating
C15_Witness ==
  \E o \in OrderIds :
    /\ orders[o] # NoOrder
    /\ orders[o].status = "ready"
    /\ rating_resp = [actor |-> orders[o].customer_id, order |-> o,
                      error |-> "42501"]
    /\ order_ratings = {}

\* C16: no order ever has two ratings; a new rating submitted for an
\* order that has one fails and leaves the table as it is, with the unique
\* violation whenever the request is one the table would otherwise take
\* (the order's customer, order delivered, 1 to 5 stars).
C16_OneRatingPerOrder ==
  [][/\ \A r1, r2 \in order_ratings' :
          r1.order_id = r2.order_id => r1 = r2
     /\ \A a \in Profiles, o \in OrderIds, c \in Customers, stars \in ApiStars :
          (/\ SubmitsNewRating(a, o, c, stars)
           /\ \E r \in order_ratings : r.order_id = o)
            => /\ order_ratings' = order_ratings
               /\ rating_resp'.error # "none"
               /\ (/\ a = c
                   /\ orders[o].customer_id = a
                   /\ orders[o].status = "delivered"
                   /\ stars \in 1..5) => rating_resp'.error = "23505"]_vars

\* C16 witness: a delivered order has its rating, and its customer's
\* second submission has been refused with the unique violation
C16_Witness ==
  \E o \in OrderIds, r \in order_ratings :
    /\ r.order_id = o
    /\ orders[o].status = "delivered"
    /\ rating_resp = [actor |-> r.customer_id, order |-> o,
                      error |-> "23505"]

\* C17: a rating row comes into existence only through a submission of
\* the rated order's own customer, in that customer's name; a submission
\* by any other profile fails with the policy violation and creates no
\* rating.
C17_OnlyOwnCustomerRates ==
  [][/\ \A r \in order_ratings' :
          r.id \notin {q.id : q \in order_ratings}
            => /\ rating_resp'.actor = r.customer_id
               /\ orders[r.order_id].customer_id = r.customer_id
     /\ \A a \in Profiles, o \in OrderIds, c \in Customers, stars \in ApiStars :
          (/\ SubmitsNewRating(a, o, c, stars)
           /\ orders[o] # NoOrder
           /\ a # orders[o].customer_id)
            => /\ order_ratings' = order_ratings
               /\ rating_resp'.error = "42501"]_vars

\* C17 witness: a customer has submitted a rating for another customer's
\* delivered, unrated order and was refused; there is no rating
C17_Witness ==
  \E o \in OrderIds :
    /\ orders[o].status = "delivered"
    /\ rating_resp.order = o
    /\ rating_resp.actor \in Customers \ {orders[o].customer_id}
    /\ rating_resp.error = "42501"
    /\ order_ratings = {}

\* the field holds nothing but blanks (it is empty or whitespace-only)
Blank(s) ==
  \A i \in 1..Len(s) : s[i] = " "

\* C18: placeOrder for a delivery order with a blank house number or a
\* blank phone number ends with a validation error; it creates no order
\* and no order line and leaves the cart as it is.
C18_AddressRequired ==
  [][\A ok \in BOOLEAN :
       (/\ placeOrderInsert("delivery", ok)
        /\ (Blank(client.houseNo) \/ Blank(client.phone)))
         => /\ orders' = orders
            /\ order_details' = order_details
            /\ order_items' = order_items
            /\ client'.cart = client.cart
            /\ client'.pc = "idle"
            /\ client'.toast \in
                 {"Please enter house number and phone number for delivery.",
                  "Cart is empty or location is unavailable."}
            /\ (client.cart # <<>> /\ client.customerLocation)
                 => client'.toast =
                      "Please enter house number and phone number for delivery."]_vars

\* C18 witness: with items in the cart, a whitespace-only house number and
\* a phone number, the delivery order was refused; nothing is stored
C18_Witness ==
  /\ client.cart # <<>>
  /\ client.houseNo = <<" ", " ">>
  /\ client.phone = <<"9">>
  /\ client.toast = "Please enter house number and phone number for delivery."
  /\ \A o \in OrderIds : orders[o] = NoOrder
  /\ order_items = {}

\* the preparation time an item counts with: 15 when it has none
Counted(item) ==
  IF item.preparation_time_minutes = NullInt THEN 15
  ELSE item.preparation_time_minutes

\* order o comes into existence in this step
Created(o) ==
  orders[o] = NoOrder /\ orders'[o] # NoOrder

\* C19: the estimated_prep_time stored with a new order is the largest
\* preparation time among the items of the cart it was placed from, an
\* item without a preparation time counting as 15 minutes.
C19_PrepTimeIsMax ==
  [][\A o \in OrderIds :
       Created(o) =>
         /\ client.cart # <<>>
         /\ \A i \in 1..Len(client.cart) :
              order_details'[o].estimated_prep_time >= Counted(client.cart[i])
         /\ \E i \in 1..Len(client.cart) :
              order_details'[o].estimated_prep_time = Counted(client.cart[i])]_vars

\* C19 witness: an order placed from a cart with preparation times
\* 10, 25 and 15 is stored with estimated_prep_time 25
C19_Witness ==
  \E o \in OrderIds :
    /\ client.pc = "items" /\ client.orderData = o
    /\ Len(client.cart) = 3
    /\ client.cart[1].preparation_time_minutes = 10
    /\ client.cart[2].preparation_time_minutes = 25
    /\ client.cart[3].preparation_time_minutes = 15
    /\ order_details[o].estimated_prep_time = 25

\* C20: a new delivery order placed at route distance d metres, d = 0
\* included, is stored with estimated_delivery_time = ceil(d / 100 * 2),
\* the least whole number of minutes e with e * 100 >= d * 2; a new pickup
\* order is stored with no delivery estimate.
C20_DeliveryTimeFromDistance ==
  [][\A o \in OrderIds :
       Created(o) =>
         IF orders'[o].order_type = "delivery"
         THEN client.distance # NullInt =>
                /\ order_details'[o].estimated_delivery_time * 100
                     >= client.distance * 2
                /\ (order_details'[o].estimated_delivery_time - 1) * 100
                     < client.distance * 2
         ELSE order_details'[o].estimated_delivery_time = NullInt]_vars

\* the sum of quantity * price over a set of order lines
RECURSIVE SumLines(_)
SumLines(lines) ==
  IF lines = {} THEN 0
  ELSE LET r == CHOOSE x \in lines : TRUE
       IN r.quantity * r.price + SumLines(lines \ {r})

\* the lines of order o
LinesOf(o) ==
  {r \in order_items : r.order_id = o}

C22_RoleImmutable ==
  [][\/ \E u \in Registrants : handleAuthFinish(u)
     \/ \A r \in profiles : \A r2 \in profiles' :
           r2.id = r.id => r2.user_type = r.user_type]_vars

\* a client without an Owner profile: not signed in, a Customer, a Delivery
NotOwner(a) ==
  ~(HasProfile(a) /\ user_type(a) = "owner")

\* a sends an INSERT, UPDATE or DELETE on menu_items, or calls
\* soft_delete_menu_item
MenuWrite(a) ==
  \E m \in MenuIds :
     \/ \E price \in MenuPrices : InsertMenuItem(a, m, price)
     \/ \E avail \in BOOLEAN : UpdateMenuItem(a, m, avail)
     \/ DirectMenuDelete(a, m)
     \/ a \in Profiles /\ soft_delete_menu_item(a, m)

\* C23: only an Owner profile creates, updates or deletes menu items: a
\* write by a client that is not signed in, by a Customer or by a Delivery
\* profile is refused (an error, or no row affected) and leaves the menu as
\* it was
C23_MenuOwnerOnly ==
  [][\A a \in Clients :
        NotOwner(a) /\ MenuWrite(a) =>
           /\ menu_items' = menu_items
           /\ menu_resp'.error = "42501" \/ menu_resp'.rows = 0]_vars

\* a Customer's insert was refused, a menu item is still missing
C23_Witness ==
  /\ menu_resp.actor \in Customers
  /\ menu_resp.op = "insert"
  /\ menu_resp.error = "42501"
  /\ \E m \in MenuIds : ~menu_items[m].present

\* C24: when the sign-up flow of a new identity has finished, exactly one
\* profile exists for the identity, whether the trigger created it or not
\* and whoever inserted first, and the flow reported no failure
C24_OneProfileAfterSignUp ==
  \A u \in Registrants :
     auth[u].pc = "done" =>
        /\ Cardinality({r \in profiles : r.id = u}) = 1
        /\ auth[u].toast # "Account created but profile setup failed"

\* C25: while the restaurant is offline (the owner profile's online flag is
\* false) a customer's placeOrder creates no order
C25_OfflineNoOrder ==
  [][(~restaurant_online
        /\ \E t \in OrderType, ok \in BOOLEAN : placeOrderInsert(t, ok))
       => orders' = orders]_vars

\* the order list of a shows the stored status of every order that a may
\* read and that is a's own (customer) or any (owner)
ShowsOrders(a) ==
  \A o \in OrderIds :
     (/\ orders[o] # NoOrder
      /\ OrdersSelectPolicy(a, orders[o])
      /\ a \in Customers => orders[o].customer_id = a)
        => view[a][o] = orders[o].status

\* C26: while a dashboard stays mounted, every committed change to an order
\* its viewer may read is eventually in the dashboard's order list, even
\* when the change notification is lost, because the timer fetches again:
\* again and again the owner's list shows every order's status, the
\* courier's lists are what their queries return, and the customer's list
\* shows the status of the customer's orders while the orders tab is shown
C26_PollReflects ==
  /\ \A w \in OwnerIds : []<>ShowsOrders(w)
  /\ \A d \in CourierIds : []<>(~ENABLED <<DeliveryFetchOrders(d)>>_vars)
  /\ []<>(client.view # "orders" \/ ShowsOrders(client.user))

\* C27: a courier's ready -> picked_up request takes effect only if the
\* stored order is still ready when the write is applied: a request sent
\* from an outdated list against an order that is picked_up or delivered by
\* then is refused (an error, or no row affected) and leaves status and
\* delivery_boy_id as they are
C27_StaleAcceptRefused ==
  [][\A req \in BagToSet(inflight) :
       ( /\ ApplyUpdate(req)
         /\ user_type(req.actor) = "delivery"
         /\ req.status = "picked_up"
         /\ orders[req.order] # NoOrder
         /\ orders[req.order].status \in {"picked_up", "delivered"} )
       => ( /\ resp'.error \/ ~RowTouched(req.actor, orders, req.order)
            /\ orders'[req.order].status = orders[req.order].status
            /\ orders'[req.order].delivery_boy_id
                 = orders[req.order].delivery_boy_id )]_vars

\* C28: once an order is picked_up with a courier as delivery_boy_id, no
\* operation (another courier's accept, an owner's status update, the
\* auto-assignment) gives it a different delivery_boy_id; here for the
\* steps taken while the order is picked_up or delivered
C28_CourierKept ==
  [][\A o \in OrderIds :
       ( /\ orders[o] # NoOrder
         /\ orders[o].status \in {"picked_up", "delivered"}
         /\ orders[o].delivery_boy_id # NULL )
       => orders'[o].delivery_boy_id = orders[o].delivery_boy_id]_vars

\* C29: in every reachable state, after any sequence of rating edits, every
\* stored rating has 1 to 5 stars and names an order that is delivered and
\* whose customer is the rating's customer
C29_RatingsValid ==
  \A r \in order_ratings :
     /\ r.rating >= 1 /\ r.rating <= 5
     /\ orders[r.order_id] # NoOrder
     /\ orders[r.order_id].status = "delivered"
     /\ orders[r.order_id].customer_id = r.customer_id

\* a dashboard that has fetched the stored order o shows a button for it:
\* the owner's card (getAction), a courier's "Accept Delivery" or "Mark as
\* Delivered"
Offered(o) ==
  \/ \E w \in OwnerIds :
        /\ OrdersSelectPolicy(w, orders[o])
        /\ getAction(orders[o].status) # NULL
  \/ \E d \in Range(couriers) :
        /\ OrdersSelectPolicy(d, orders[o])
        /\ \/ orders[o].status = "ready" /\ orders[o].order_type = "delivery"
           \/ orders[o].status = "picked_up" /\ orders[o].delivery_boy_id = d

\* C30: from every state of an order that is not delivered or cancelled,
\* pickup and delivery orders alike, delivered can be reached through the
\* buttons of the owner and delivery dashboards, also when the owner's
\* dashboard moved the order to picked_up: such an order always has a
\* button on some dashboard, or an update on its way
C30_DeliveredReachable ==
  \A o \in OrderIds :
     (orders[o] # NoOrder /\ orders[o].status \notin {"delivered", "cancelled"})
        => inflight # EmptyBag \/ Offered(o)
====
